---------------------------- MODULE Spec2Model ----------------------------
(***************************************************************************)
(* A model of src/main.c: the BMP loader load_bmp (24-bit uncompressed     *)
(* bitmap -> top-down 8-bit luminance plane) and the driver main that      *)
(* hands the plane to the quirc recognizer.                                *)
(*                                                                         *)
(* The input file is a record bmp: the header fields the packed structs    *)
(* BMPFileHeader / BMPInfoHeader overlay, the number of header bytes that  *)
(* are present (hdr), and the bytes that follow the 54 header bytes        *)
(* (data).  load_bmp is modelled statement by statement; pc is its         *)
(* position, mpc the position of main.                                     *)
(***************************************************************************)
EXTENDS Integers, Sequences, FiniteSets, TLC

(***************************************************************************)
(* Bounds of the model.                                                    *)
(***************************************************************************)
MaxW == 2          \* small stored widths are -MaxW .. MaxW
MaxH == 2          \* small stored heights are -MaxH .. MaxH; rows in a file 0 .. MaxH
MaxArgc == 3       \* argc ranges over 1 .. MaxArgc
MaxSkip == 1       \* pixel offsets 54 .. 54 + MaxSkip (and one past end of file)

(***************************************************************************)
(* Program constants.                                                      *)
(***************************************************************************)
BM_MAGIC == 19778          \* 0x4D42
FILE_HEADER_SIZE == 14     \* sizeof(BMPFileHeader), packed
INFO_HEADER_SIZE == 40     \* sizeof(BMPInfoHeader), packed
BIT_DEPTH == 24
MaxInt32 == 2147483647
MinInt32 == -MaxInt32 - 1
HEADER_BYTES == FILE_HEADER_SIZE + INFO_HEADER_SIZE

(***************************************************************************)
(* The program's int arithmetic: 32-bit two's complement.  A signed        *)
(* overflow is undefined behaviour; Wrap is the outcome of a build that    *)
(* wraps, the ...Overflows predicates say when the behaviour is undefined. *)
(***************************************************************************)
Byte(x, k) ==
  CASE k = 0 -> x % 256
    [] k = 1 -> (x \div 256) % 256
    [] k = 2 -> (x \div 65536) % 256
    [] k = 3 -> (x \div 16777216) % 256
    [] OTHER -> IF x < 0 THEN 255 ELSE 0

\* the 8 bytes of x sign-extended to 64 bits, least significant first
SignExtend(x) == [k \in 1..8 |-> Byte(x, k - 1)]

FromBytes(r) ==
  (IF r[4] >= 128 THEN r[4] - 256 ELSE r[4]) * 16777216
    + r[3] * 65536 + r[2] * 256 + r[1]

RECURSIVE Column(_, _, _, _)
Column(A, B, k, i) ==
  IF i > k THEN 0 ELSE A[i] * B[k + 1 - i] + Column(A, B, k, i + 1)

RECURSIVE MulLimbs(_, _, _, _)
MulLimbs(A, B, k, carry) ==
  IF k > 8 THEN <<>>
  ELSE LET t == Column(A, B, k, 1) + carry
       IN  <<t % 256>> \o MulLimbs(A, B, k + 1, t \div 256)

\* the exact product of two ints, as 8 bytes of a 64-bit two's complement value
Product64(a, b) == MulLimbs(SignExtend(a), SignExtend(b), 1, 0)

MulWrap(a, b) == FromBytes(Product64(a, b))

MulOverflows(a, b) ==
  LET p == Product64(a, b)
      s == IF p[4] >= 128 THEN 255 ELSE 0
  IN  \E k \in 5..8 : p[k] # s

AddOverflows(a, b) ==
  \/ b > 0 /\ a > MaxInt32 - b
  \/ b < 0 /\ a < MinInt32 - b

AddWrap(a, b) ==
  IF b > 0 /\ a > MaxInt32 - b THEN (a - MaxInt32 - 1) + (b - MaxInt32 - 1)
  ELSE IF b < 0 /\ a < MinInt32 - b THEN (a + MaxInt32 + 1) + (b + MaxInt32 + 1)
  ELSE a + b

NegOverflows(a) == a = MinInt32

NegWrap(a) == IF a = MinInt32 THEN MinInt32 ELSE -a

\* n & ~3 on a two's complement int: the two low bits cleared
AndNot3(n) == n - (n % 4)

(***************************************************************************)
(* main.c:131  (uint8_t)(0.299 * r + 0.587 * g + 0.114 * b)                *)
(* IEEE-754 binary64, round to nearest even, evaluated left to right.      *)
(* A double in [0, 256) is held exactly as a natural number of units of    *)
(* 2^-56, in three limbs of 22 bits, least significant first.              *)
(***************************************************************************)
LIMB == 4194304            \* 2^22
MANTISSA_BITS == 53

\* the doubles nearest to the decimal literals
K_R == <<67108, 2952790, 1224>>       \* 0.299 = 0x1.322d0e5604189p-2
K_G == <<33552, 1476395, 2404>>       \* 0.587 = 0x1.2c8b439581062p-1
K_B == <<4093641, 3959422, 466>>      \* 0.114 = 0x1.d2f1a9fbe76c9p-4

RECURSIVE Bits(_)
Bits(n) == IF n = 0 THEN 0 ELSE 1 + Bits(n \div 2)

RECURSIVE Pow2(_)
Pow2(n) == IF n = 0 THEN 1 ELSE 2 * Pow2(n - 1)

BitLen(d) ==
  IF d[3] > 0 THEN 44 + Bits(d[3])
  ELSE IF d[2] > 0 THEN 22 + Bits(d[2])
  ELSE Bits(d[1])

Carry(d) ==
  LET c1 == d[1] \div LIMB
      m2 == d[2] + c1
  IN  <<d[1] % LIMB, m2 % LIMB, d[3] + (m2 \div LIMB)>>

\* round an exact value to a 53-bit significand, ties to even
RoundDouble(d) ==
  IF BitLen(d) <= MANTISSA_BITS THEN d
  ELSE LET q    == Pow2(BitLen(d) - MANTISSA_BITS)
           rem  == d[1] % q
           down == d[1] - rem
           up   == \/ 2 * rem > q
                   \/ 2 * rem = q /\ (d[1] \div q) % 2 = 1
       IN  Carry(<<IF up THEN down + q ELSE down, d[2], d[3]>>)

\* double * (double)(int)c for an 8-bit channel c
DMulByte(k, c) == RoundDouble(Carry(<<k[1] * c, k[2] * c, k[3] * c>>))

DAdd(a, b) == RoundDouble(Carry(<<a[1] + b[1], a[2] + b[2], a[3] + b[3]>>))

\* conversion of a double to an integer: truncation toward zero
DTrunc(d) == d[3] \div 4096

Luminance(r, g, b) ==
  DTrunc(DAdd(DAdd(DMulByte(K_R, r), DMulByte(K_G, g)), DMulByte(K_B, b)))

(***************************************************************************)
(* State.                                                                  *)
(***************************************************************************)
VARIABLES
  argc,            \* main's argc
  exists,          \* whether fopen(argv[1], "rb") can open the file
  bmp,             \* the file's content
  mpc,             \* position of main
  exitStatus,      \* main's return value, -1 while running
  usage,           \* the usage line was printed to stderr
  loadArg,         \* index in argv of the path handed to load_bmp, 0: none
  mainFrees,       \* calls of free(image_data) made by main
  mainUses,        \* reads of the plane made by main (memcpy)
  pc,              \* position of load_bmp
  ret,             \* load_bmp's return value
  err,             \* the diagnostic load_bmp printed
  fileState,       \* the FILE handle: "none", "open", "closed"
  fcloses,         \* calls of fclose
  fpos,            \* the file position
  seeks,           \* calls of fseek
  rowReads,        \* calls of fread on the pixel region
  width, height,   \* main's width and height, written through the out-parameters
  dimsSet,         \* whether they have been written
  image_data,      \* main's image_data pointer: "NULL" or "plane"
  planeState,      \* the plane's heap block: "none", "live", "freed", "double_free"
  planeFrees,      \* calls of free(*image_data) made by load_bmp
  planeSize,       \* bytes requested for the plane
  plane,           \* the bytes written to the plane, by index
  row_padded,      \* the padded row length
  rowState,        \* the heap block of bgr_row_buffer
  rowFrees,        \* calls of free(bgr_row_buffer)
  bgr_row_buffer,  \* its content after the last fread
  y                \* the row loop's counter

inputs   == <<argc, exists, bmp>>
mainVars == <<mpc, exitStatus, usage, loadArg, mainFrees, mainUses>>
ctlVars  == <<pc, ret, err>>
fileVars == <<fileState, fcloses, fpos, seeks, rowReads>>
dimVars  == <<width, height, dimsSet>>
planeVars == <<image_data, planeState, planeFrees, planeSize, plane>>
rowVars  == <<row_padded, rowState, rowFrees, bgr_row_buffer, y>>
vars == <<inputs, mainVars, ctlVars, fileVars, dimVars, planeVars, rowVars>>

(***************************************************************************)
(* The input files.                                                        *)
(***************************************************************************)
\* B, G, R triples: black, white, pure red, and (1, 1, 1)
Palette == << <<0, 0, 0>>, <<255, 255, 255>>, <<0, 0, 255>>, <<1, 1, 1>> >>
PadBytes == {0, 170}

RECURSIVE Repeat(_, _)
Repeat(v, n) == IF n <= 0 THEN <<>> ELSE <<v>> \o Repeat(v, n - 1)

RECURSIVE Flatten(_)
Flatten(ss) == IF ss = <<>> THEN <<>> ELSE Head(ss) \o Flatten(Tail(ss))

Stride(w) == AndNot3(w * 3 + 3)

\* a stored row of w pixels: pixel x has colour phase + x of the palette
PixelRow(w, phase, pad) ==
  Flatten([x \in 1..w |-> Palette[((phase + x - 1) % Len(Palette)) + 1]])
    \o Repeat(pad, Stride(w) - 3 * w)

Body(w, phases, pad) == Flatten([i \in 1..Len(phases) |-> PixelRow(w, phases[i], pad)])

File(hdr, type, offset, w, h, depth, comp, data) ==
  [hdr |-> hdr, type |-> type, offset |-> offset, width |-> w, height |-> h,
   bitDepth |-> depth, compression |-> comp, data |-> data]

ValidFile(offset, w, h, data) ==
  File(HEADER_BYTES, BM_MAGIC, offset, w, h, BIT_DEPTH, 0, data)

Phases == UNION {[1..n -> 0..(Len(Palette) - 1)] : n \in 0..MaxH}

\* every pixel content, pixel data at offset 54
ContentFiles ==
  {ValidFile(HEADER_BYTES, w, h, Body(w, ph, pad)) :
     w \in 1..MaxW, h \in -MaxH..MaxH, ph \in Phases, pad \in PadBytes}

Offsets == {HEADER_BYTES + k : k \in 0..MaxSkip} \cup {1000}

\* every length of the pixel region and every pixel offset (1000 is past the
\* end of every file)
LayoutFiles ==
  {ValidFile(off, w, h, SubSeq(Body(w, [i \in 1..n |-> i], 0), 1, n * Stride(w) - cut)) :
     off \in Offsets, w \in 1..MaxW, h \in -MaxH..MaxH, n \in 0..(MaxH + 1), cut \in 0..1}

\* dimensions that are zero, negative or at the ends of the int32 range
DegenerateFiles ==
  {ValidFile(HEADER_BYTES, w, h, Body(1, <<0, 1>>, 0)) :
     w \in (-MaxW..0) \cup {MaxInt32}, h \in (-MaxH..MaxH) \cup {MinInt32}}
  \cup {ValidFile(HEADER_BYTES, w, MinInt32, Body(1, <<0, 1>>, 0)) : w \in 1..MaxW}

\* every combination of header defects (19800 is the magic "XM")
HeaderFiles ==
  {File(hdr, type, HEADER_BYTES, 1, 1, depth, comp,
        IF hdr = HEADER_BYTES THEN Body(1, <<1>>, 0) ELSE <<>>) :
     hdr \in {0, FILE_HEADER_SIZE, FILE_HEADER_SIZE + 16, HEADER_BYTES},
     type \in {BM_MAGIC, 19800}, depth \in {BIT_DEPTH, 8},
     comp \in {0, 1}}

Files == ContentFiles \cup LayoutFiles \cup DegenerateFiles \cup HeaderFiles

WhitePixel == ValidFile(HEADER_BYTES, 1, 1, Body(1, <<1>>, 0))

Scenarios ==
  {[argc |-> 2, exists |-> TRUE, bmp |-> f] : f \in Files}
  \cup {[argc |-> n, exists |-> e, bmp |-> WhitePixel] : n \in 1..MaxArgc, e \in BOOLEAN}

FileSize(f) == f.hdr + Len(f.data)

\* the byte at file position p, for a position in the pixel data
FileByte(f, p) == f.data[p - HEADER_BYTES + 1]

\* what fread(buf, 1, n, file) stores at position pos: at most n bytes, to end of file
Fread(f, pos, n) ==
  LET avail == IF pos < FileSize(f) THEN FileSize(f) - pos ELSE 0
      got   == IF n < avail THEN n ELSE avail
  IN  [k \in 1..got |-> FileByte(f, pos + k - 1)]

EmptyPlane == [i \in {} |-> 0]

Init ==
  \E s \in Scenarios :
    /\ argc = s.argc /\ exists = s.exists /\ bmp = s.bmp
    /\ mpc = "start" /\ exitStatus = -1 /\ usage = FALSE /\ loadArg = 0
    /\ mainFrees = 0 /\ mainUses = 0
    /\ pc = "idle" /\ ret = 0 /\ err = "none"
    /\ fileState = "none" /\ fcloses = 0 /\ fpos = 0 /\ seeks = 0 /\ rowReads = 0
    /\ width = 0 /\ height = 0 /\ dimsSet = FALSE
    /\ image_data = "NULL" /\ planeState = "none" /\ planeFrees = 0
    /\ planeSize = 0 /\ plane = EmptyPlane
    /\ row_padded = 0 /\ rowState = "none" /\ rowFrees = 0
    /\ bgr_row_buffer = <<>> /\ y = 0

(***************************************************************************)
(* The C library.                                                          *)
(***************************************************************************)
\* free(p) of a heap block
FreeBlock(s) == IF s = "live" THEN "freed" ELSE "double_free"

\* malloc((size_t)n) of an int n: a negative n converts to a size above
\* PTRDIFF_MAX, which no allocator grants; any other request, a request of
\* zero bytes included, may succeed or return NULL
MallocMaySucceed(n) == n >= 0

\* fclose(file); return -1;
CloseAndFail(kind) ==
  /\ fileState' = "closed" /\ fcloses' = fcloses + 1
  /\ pc' = "returned" /\ ret' = -1 /\ err' = kind

(***************************************************************************)
(* load_bmp, main.c:41-138.                                                *)
(***************************************************************************)
\* 42-46
FopenFail ==
  /\ pc = "fopen" /\ ~exists
  /\ pc' = "returned" /\ ret' = -1 /\ err' = "OpenFailure"
  /\ UNCHANGED <<inputs, mainVars, fileVars, dimVars, planeVars, rowVars>>

FopenOk ==
  /\ pc = "fopen" /\ exists
  /\ fileState' = "open" /\ fpos' = 0
  /\ pc' = "read_file_header"
  /\ UNCHANGED <<inputs, mainVars, ret, err, fcloses, seeks, rowReads, dimVars,
                 planeVars, rowVars>>

\* 49-53
ReadFileHeaderFail ==
  /\ pc = "read_file_header" /\ FileSize(bmp) - fpos < FILE_HEADER_SIZE
  /\ CloseAndFail("TruncatedHeader")
  /\ fpos' = FileSize(bmp)
  /\ UNCHANGED <<inputs, mainVars, seeks, rowReads, dimVars, planeVars, rowVars>>

ReadFileHeaderOk ==
  /\ pc = "read_file_header" /\ FileSize(bmp) - fpos >= FILE_HEADER_SIZE
  /\ fpos' = fpos + FILE_HEADER_SIZE
  /\ pc' = "check_magic"
  /\ UNCHANGED <<inputs, mainVars, ret, err, fileState, fcloses, seeks, rowReads,
                 dimVars, planeVars, rowVars>>

\* 55-59
CheckMagic ==
  /\ pc = "check_magic"
  /\ IF bmp.type # BM_MAGIC
       THEN CloseAndFail("BadMagic")
       ELSE pc' = "read_info_header" /\ UNCHANGED <<ret, err, fileState, fcloses>>
  /\ UNCHANGED <<inputs, mainVars, fpos, seeks, rowReads, dimVars, planeVars, rowVars>>

\* 62-66
ReadInfoHeaderFail ==
  /\ pc = "read_info_header" /\ FileSize(bmp) - fpos < INFO_HEADER_SIZE
  /\ CloseAndFail("TruncatedHeader")
  /\ fpos' = FileSize(bmp)
  /\ UNCHANGED <<inputs, mainVars, seeks, rowReads, dimVars, planeVars, rowVars>>

ReadInfoHeaderOk ==
  /\ pc = "read_info_header" /\ FileSize(bmp) - fpos >= INFO_HEADER_SIZE
  /\ fpos' = fpos + INFO_HEADER_SIZE
  /\ pc' = "check_depth"
  /\ UNCHANGED <<inputs, mainVars, ret, err, fileState, fcloses, seeks, rowReads,
                 dimVars, planeVars, rowVars>>

\* a variant that tests the compression before the bit depth
CheckDepthSwapped ==
  /\ pc = "check_depth"
  /\ IF bmp.compression # 0
       THEN CloseAndFail("UnsupportedCompression")
       ELSE IF bmp.bitDepth # BIT_DEPTH
              THEN CloseAndFail("UnsupportedDepth")
              ELSE pc' = "check_compression" /\ UNCHANGED <<ret, err, fileState, fcloses>>
  /\ UNCHANGED <<inputs, mainVars, fpos, seeks, rowReads, dimVars, planeVars, rowVars>>

\* 68-72
CheckDepth ==
  /\ pc = "check_depth"
  /\ IF bmp.bitDepth # BIT_DEPTH
       THEN CloseAndFail("UnsupportedDepth")
       ELSE pc' = "check_compression" /\ UNCHANGED <<ret, err, fileState, fcloses>>
  /\ UNCHANGED <<inputs, mainVars, fpos, seeks, rowReads, dimVars, planeVars, rowVars>>

\* 74-78
CheckCompression ==
  /\ pc = "check_compression"
  /\ IF bmp.compression # 0
       THEN CloseAndFail("UnsupportedCompression")
       ELSE pc' = "dims" /\ UNCHANGED <<ret, err, fileState, fcloses>>
  /\ UNCHANGED <<inputs, mainVars, fpos, seeks, rowReads, dimVars, planeVars, rowVars>>

\* 84: infoHeader.height > 0 ? infoHeader.height : -infoHeader.height
StoredHeight(h) == IF h > 0 THEN h ELSE NegWrap(h)

\* 88: (*width * 3 + 3) & (~3)
RowPadded(w) == AndNot3(AddWrap(MulWrap(w, 3), 3))

DimsOverflow ==
  \/ bmp.height <= 0 /\ NegOverflows(bmp.height)
  \/ MulOverflows(bmp.width, 3)
  \/ AddOverflows(MulWrap(bmp.width, 3), 3)

\* 80-88
Dims ==
  /\ pc = "dims"
  /\ width' = bmp.width
  /\ height' = StoredHeight(bmp.height)
  /\ dimsSet' = TRUE
  /\ row_padded' = RowPadded(bmp.width)
  /\ pc' = "malloc_plane"
  /\ UNCHANGED <<inputs, mainVars, ret, err, fileVars, planeVars, rowState, rowFrees,
                 bgr_row_buffer, y>>

\* 84, 88 and 91: a signed overflow, in a build that traps on it
OverflowTrap ==
  /\ \/ pc = "dims" /\ DimsOverflow
     \/ pc = "malloc_plane" /\ MulOverflows(width, height)
  /\ pc' = "aborted" /\ mpc' = "aborted"
  /\ UNCHANGED <<inputs, exitStatus, usage, loadArg, mainFrees, mainUses, ret, err,
                 fileVars, dimVars, planeVars, rowVars>>

\* 91: (*width) * (*height)
PlaneBytes(w, h) == MulWrap(w, h)

\* 91-96
MallocPlaneFail ==
  /\ pc = "malloc_plane"
  /\ image_data' = "NULL"
  /\ CloseAndFail("AllocationFailure")
  /\ UNCHANGED <<inputs, mainVars, fpos, seeks, rowReads, dimVars, planeState,
                 planeFrees, planeSize, plane, rowVars>>

MallocPlaneOk ==
  /\ pc = "malloc_plane" /\ MallocMaySucceed(PlaneBytes(width, height))
  /\ image_data' = "plane" /\ planeState' = "live"
  /\ planeSize' = PlaneBytes(width, height)
  /\ pc' = "fseek"
  /\ UNCHANGED <<inputs, mainVars, ret, err, fileVars, dimVars, planeFrees, plane, rowVars>>

\* 99
Fseek ==
  /\ pc = "fseek"
  /\ fpos' = bmp.offset /\ seeks' = seeks + 1
  /\ pc' = "malloc_row"
  /\ UNCHANGED <<inputs, mainVars, ret, err, fileState, fcloses, rowReads, dimVars,
                 planeVars, rowVars>>

\* a variant that returns without fclose(file)
MallocRowFailNoClose ==
  /\ pc = "malloc_row"
  /\ planeState' = FreeBlock(planeState) /\ planeFrees' = planeFrees + 1
  /\ pc' = "returned" /\ ret' = -1 /\ err' = "AllocationFailure"
  /\ UNCHANGED <<inputs, mainVars, fileVars, dimVars, image_data, planeSize, plane,
                 rowVars>>

\* 101-107
MallocRowFail ==
  /\ pc = "malloc_row"
  /\ planeState' = FreeBlock(planeState) /\ planeFrees' = planeFrees + 1
  /\ CloseAndFail("AllocationFailure")
  /\ UNCHANGED <<inputs, mainVars, fpos, seeks, rowReads, dimVars, image_data,
                 planeSize, plane, rowVars>>

MallocRowOk ==
  /\ pc = "malloc_row" /\ MallocMaySucceed(row_padded)
  /\ rowState' = "live"
  /\ y' = 0
  /\ pc' = "row_loop"
  /\ UNCHANGED <<inputs, mainVars, ret, err, fileVars, dimVars, planeVars, row_padded,
                 rowFrees, bgr_row_buffer>>

\* a variant that only asks for the row's pixel bytes to have been read
ShortReadLax(got, n) == Len(got) < 3 * width

\* 112: fread(bgr_row_buffer, 1, row_padded, file) != (size_t)row_padded
ShortRead(got, n) == Len(got) # n

\* a variant that returns without free(*image_data)
ReadRowShortLeak ==
  /\ pc = "row_loop" /\ y < height
  /\ LET got == Fread(bmp, fpos, row_padded)
     IN  /\ ShortRead(got, row_padded)
         /\ bgr_row_buffer' = got
         /\ fpos' = fpos + Len(got)
  /\ rowReads' = rowReads + 1
  /\ rowState' = FreeBlock(rowState) /\ rowFrees' = rowFrees + 1
  /\ CloseAndFail("TruncatedPixels")
  /\ UNCHANGED <<inputs, mainVars, seeks, dimVars, planeVars, row_padded, y>>

\* 112-118
ReadRowShort ==
  /\ pc = "row_loop" /\ y < height
  /\ LET got == Fread(bmp, fpos, row_padded)
     IN  /\ ShortRead(got, row_padded)
         /\ bgr_row_buffer' = got
         /\ fpos' = fpos + Len(got)
  /\ rowReads' = rowReads + 1
  /\ rowState' = FreeBlock(rowState) /\ rowFrees' = rowFrees + 1
  /\ planeState' = FreeBlock(planeState) /\ planeFrees' = planeFrees + 1
  /\ CloseAndFail("TruncatedPixels")
  /\ UNCHANGED <<inputs, mainVars, seeks, dimVars, image_data, planeSize, plane,
                 row_padded, y>>

\* 124: (*height - 1 - y) * (*width), the index of the destination row's first byte
DestIndex(h, w, yy) == (h - 1 - yy) * w

\* a variant that takes the channels as R, G, B
GrayRowSwapped(buf, w) ==
  [xx \in 0..(w - 1) |->
     LET r == buf[xx * 3 + 0 + 1]
         g == buf[xx * 3 + 1 + 1]
         b == buf[xx * 3 + 2 + 1]
     IN  Luminance(r, g, b)]

\* a variant that steps four bytes per pixel
GrayRowFour(buf, w) ==
  [xx \in 0..(w - 1) |->
     LET b == buf[xx * 4 + 0 + 1]
         g == buf[xx * 4 + 1 + 1]
         r == buf[xx * 4 + 2 + 1]
     IN  Luminance(r, g, b)]

\* 126-132: the luminance bytes of one row
GrayRow(buf, w) ==
  [xx \in 0..(w - 1) |->
     LET b == buf[xx * 3 + 0 + 1]
         g == buf[xx * 3 + 1 + 1]
         r == buf[xx * 3 + 2 + 1]
     IN  Luminance(r, g, b)]

\* the plane after grayscale_row_ptr[x] = ... for x = 0 .. w - 1
StoreRow(pl, dst, row) ==
  [i \in DOMAIN pl \cup {dst + xx : xx \in DOMAIN row} |->
     IF i - dst \in DOMAIN row THEN row[i - dst] ELSE pl[i]]

\* 110-133 as a function of the file: the return value and the plane of the
\* loop entered at row yy with the file position pos and the plane pl
RECURSIVE LoadRows(_, _, _, _, _, _, _)
LoadRows(f, w, h, stride, pos, yy, pl) ==
  IF ~(yy < h) THEN [ret |-> 0, plane |-> pl]
  ELSE LET got == Fread(f, pos, stride)
       IN  IF ShortRead(got, stride) THEN [ret |-> -1, plane |-> pl]
           ELSE LoadRows(f, w, h, stride, pos + stride, yy + 1,
                         StoreRow(pl, DestIndex(h, w, yy), GrayRow(got, w)))

\* 110-133, one iteration with a full row read
ReadRowOk ==
  /\ pc = "row_loop" /\ y < height
  /\ LET got == Fread(bmp, fpos, row_padded)
     IN  /\ ~ShortRead(got, row_padded)
         /\ bgr_row_buffer' = got
         /\ fpos' = fpos + Len(got)
         /\ plane' = StoreRow(plane, DestIndex(height, width, y), GrayRow(got, width))
  /\ rowReads' = rowReads + 1
  /\ y' = y + 1
  /\ UNCHANGED <<inputs, mainVars, ctlVars, fileState, fcloses, seeks, dimVars,
                 image_data, planeState, planeFrees, planeSize, row_padded, rowState,
                 rowFrees>>

\* 110, 135-137
Finish ==
  /\ pc = "row_loop" /\ ~(y < height)
  /\ rowState' = FreeBlock(rowState) /\ rowFrees' = rowFrees + 1
  /\ fileState' = "closed" /\ fcloses' = fcloses + 1
  /\ pc' = "returned" /\ ret' = 0
  /\ UNCHANGED <<inputs, mainVars, err, fpos, seeks, rowReads, dimVars, planeVars,
                 row_padded, bgr_row_buffer, y>>

LoadBmp ==
  \/ FopenFail \/ FopenOk
  \/ ReadFileHeaderFail \/ ReadFileHeaderOk
  \/ CheckMagic
  \/ ReadInfoHeaderFail \/ ReadInfoHeaderOk
  \/ CheckDepth \/ CheckCompression
  \/ Dims \/ OverflowTrap
  \/ MallocPlaneFail \/ MallocPlaneOk
  \/ Fseek
  \/ MallocRowFail \/ MallocRowOk
  \/ ReadRowShort \/ ReadRowOk
  \/ Finish

(***************************************************************************)
(* main, main.c:143-219.  The quirc library is an external collaborator:   *)
(* each of its calls may succeed or fail.                                  *)
(***************************************************************************)
\* a variant that refuses everything but one argument
BadArgcStrict(n) == n # 2

\* 144: the arguments main refuses
BadArgc(n) == n < 2

\* 144-147
MainUsage ==
  /\ mpc = "start" /\ BadArgc(argc)
  /\ usage' = TRUE /\ exitStatus' = 1 /\ mpc' = "exited"
  /\ UNCHANGED <<inputs, loadArg, mainFrees, mainUses, ctlVars, fileVars, dimVars,
                 planeVars, rowVars>>

\* 149-152: image_data = NULL; load_bmp(argv[1], &width, &height, &image_data)
MainCallLoad ==
  /\ mpc = "start" /\ ~BadArgc(argc)
  /\ loadArg' = 1
  /\ mpc' = "in_load" /\ pc' = "fopen"
  /\ UNCHANGED <<inputs, exitStatus, usage, mainFrees, mainUses, ret, err, fileVars,
                 dimVars, planeVars, rowVars>>

\* 152-155
MainLoadFailed ==
  /\ mpc = "in_load" /\ pc = "returned" /\ ret # 0
  /\ exitStatus' = 1 /\ mpc' = "exited"
  /\ UNCHANGED <<inputs, usage, loadArg, mainFrees, mainUses, ctlVars, fileVars,
                 dimVars, planeVars, rowVars>>

MainLoadOk ==
  /\ mpc = "in_load" /\ pc = "returned" /\ ret = 0
  /\ mpc' = "quirc_new"
  /\ UNCHANGED <<inputs, exitStatus, usage, loadArg, mainFrees, mainUses, ctlVars,
                 fileVars, dimVars, planeVars, rowVars>>

\* free(image_data); return status;
FreeAndExit(status) ==
  /\ planeState' = FreeBlock(planeState) /\ mainFrees' = mainFrees + 1
  /\ exitStatus' = status /\ mpc' = "exited"

\* 159-164, 166-171, 173-179, 183-189: a failing quirc call
QuircFail ==
  /\ mpc \in {"quirc_new", "quirc_resize", "quirc_begin", "quirc_count"}
  /\ FreeAndExit(1)
  /\ UNCHANGED <<inputs, usage, loadArg, mainUses, ctlVars, fileVars, dimVars,
                 image_data, planeFrees, planeSize, plane, rowVars>>

\* 159, 166
QuircNewOk ==
  /\ mpc = "quirc_new" /\ mpc' = "quirc_resize"
  /\ UNCHANGED <<inputs, exitStatus, usage, loadArg, mainFrees, mainUses, ctlVars,
                 fileVars, dimVars, planeVars, rowVars>>

QuircResizeOk ==
  /\ mpc = "quirc_resize" /\ mpc' = "quirc_begin"
  /\ UNCHANGED <<inputs, exitStatus, usage, loadArg, mainFrees, mainUses, ctlVars,
                 fileVars, dimVars, planeVars, rowVars>>

\* 173-181: memcpy(quirc_buffer, image_data, (size_t)width * height)
QuircBeginOk ==
  /\ mpc = "quirc_begin" /\ mpc' = "quirc_count"
  /\ mainUses' = mainUses + 1
  /\ UNCHANGED <<inputs, exitStatus, usage, loadArg, mainFrees, ctlVars, fileVars,
                 dimVars, planeVars, rowVars>>

\* 183-218: count >= 0, the report, free(image_data); return 0;
QuircReport ==
  /\ mpc = "quirc_count"
  /\ FreeAndExit(0)
  /\ UNCHANGED <<inputs, usage, loadArg, mainUses, ctlVars, fileVars, dimVars,
                 image_data, planeFrees, planeSize, plane, rowVars>>

Main ==
  \/ MainUsage \/ MainCallLoad \/ MainLoadFailed \/ MainLoadOk
  \/ QuircFail \/ QuircNewOk \/ QuircResizeOk \/ QuircBeginOk \/ QuircReport

Next == LoadBmp \/ Main

Spec == Init /\ [][Next]_vars

(***************************************************************************)
(* Properties.                                                             *)
(***************************************************************************)
Returned == pc = "returned"
Success == Returned /\ ret = 0
Failure == Returned /\ ret = -1

\* byte k of stored row yy, as the loader lays the pixel region out
SrcByte(yy, k) == FileByte(bmp, bmp.offset + yy * row_padded + k)

\* the bytes of the file from the declared pixel offset on
Avail == IF bmp.offset < FileSize(bmp) THEN FileSize(bmp) - bmp.offset ELSE 0

\* C1: Orientation normalization: after a successful load of an image with
\* W > 0, stored row y is in plane row H-1-y when the stored height is
\* positive and in plane row y when it is negative, so that the plane is
\* top-down whatever the sign of the stored height.
OrientationNormalized ==
  (Success /\ width > 0 /\ height > 0) =>
    \A yy \in 0..(height - 1), xx \in 0..(width - 1) :
      LET dstRow == IF bmp.height > 0 THEN height - 1 - yy ELSE yy
      IN  /\ (dstRow * width + xx) \in DOMAIN plane
          /\ plane[dstRow * width + xx] =
               Luminance(SrcByte(yy, 3 * xx + 2), SrcByte(yy, 3 * xx + 1),
                         SrcByte(yy, 3 * xx))

\* C2: A zero-width or zero-height image is rejected: every successful load
\* returns width > 0 and height > 0.
PositiveDimensions == Success => (width > 0 /\ height > 0)

\* C3: On any error no luminance buffer is surrendered: when load_bmp has
\* returned -1 the plane, if it was allocated, has been freed exactly once by
\* the loader, image_data does not refer to a live block, and main neither
\* frees nor reads the plane.
NoPlaneOnFailure ==
  /\ planeState # "double_free"
  /\ Failure =>
       /\ planeState \in {"none", "freed"}
       /\ planeFrees = (IF planeState = "freed" THEN 1 ELSE 0)
       /\ image_data = "plane" => planeState = "freed"
       /\ planeState = "none" => image_data = "NULL"
       /\ mainFrees = 0 /\ mainUses = 0
       /\ mpc \in {"in_load", "exited"}
       /\ mpc = "exited" => exitStatus = 1

NoPlaneOnFailureWitness ==
  /\ mpc = "exited" /\ Failure /\ err = "TruncatedPixels"
  /\ planeState = "freed" /\ planeFrees = 1 /\ y >= 1

\* C4: On every exit path of load_bmp after the file was opened the handle
\* has been closed exactly once and the scratch row buffer, if allocated, has
\* been freed exactly once; neither is still held at return.
FileResourcesReleased ==
  /\ fcloses <= 1 /\ rowFrees <= 1
  /\ rowState # "double_free"
  /\ Returned =>
       /\ fileState \in {"none", "closed"}
       /\ fcloses = (IF fileState = "closed" THEN 1 ELSE 0)
       /\ fileState = "none" <=> err = "OpenFailure"
       /\ rowState \in {"none", "freed"}
       /\ rowFrees = (IF rowState = "freed" THEN 1 ELSE 0)

FileResourcesReleasedWitness ==
  /\ Failure /\ err = "AllocationFailure" /\ planeState = "freed"
  /\ fileState = "closed" /\ fcloses = 1 /\ rowState = "none"

\* whether the file holds height rows of row_padded bytes from the offset on
EnoughRows ==
  \/ height <= 0
  \/ row_padded = 0
  \/ height <= Avail \div row_padded

\* C5: Truncated pixels: once both buffers are allocated the loader reads
\* exactly row_padded bytes per row, rows 0 .. H-1, from the declared pixel
\* offset; it fails at the first short row, yielding no plane and leaking
\* nothing, when the file holds fewer than H * row_padded bytes from the
\* offset, and succeeds, ignoring what follows the last row, when it holds
\* at least that many.
TruncatedPixels ==
  /\ pc = "row_loop" =>
       /\ fpos = bmp.offset + y * row_padded
       /\ rowReads = y
       /\ y >= 1 => bgr_row_buffer = [k \in 1..row_padded |-> SrcByte(y - 1, k - 1)]
  /\ (Returned /\ rowState # "none") =>
       /\ ret = 0 <=> EnoughRows
       /\ ret = 0 =>
            /\ err = "none"
            /\ height > 0 => (y = height /\ rowReads = height)
            /\ fpos = bmp.offset + rowReads * row_padded
            /\ planeState = "live" \/ mpc = "exited"
       /\ ret # 0 =>
            /\ ret = -1 /\ err = "TruncatedPixels"
            /\ y = Avail \div row_padded
            /\ rowReads = y + 1
            /\ Len(bgr_row_buffer) = Avail - y * row_padded
            /\ planeState = "freed" /\ rowState = "freed" /\ fileState = "closed"

TruncatedPixelsWitness ==
  /\ Failure /\ err = "TruncatedPixels"
  /\ y = 1 /\ height = 2 /\ Avail > row_padded /\ Avail < 2 * row_padded

\* the truncation of the exact sum 0.299 R + 0.587 G + 0.114 B
ExactTrunc(r, g, b) == (299 * r + 587 * g + 114 * b) \div 1000

\* C7: Luminance formula: every plane byte of a successfully loaded image is
\* the truncated double sum 0.299 R + 0.587 G + 0.114 B of the pixel whose
\* B, G, R are the bytes at offsets 3x, 3x+1, 3x+2 of its row; it lies in
\* 0 .. 255, is the truncated exact sum or one below it, is 255 for white
\* and 76 for pure red.
LuminanceFormula ==
  (Success /\ mpc = "in_load" /\ width > 0 /\ height > 0) =>
    \A yy \in 0..(height - 1), xx \in 0..(width - 1) :
      LET b == SrcByte(yy, 3 * xx)
          g == SrcByte(yy, 3 * xx + 1)
          r == SrcByte(yy, 3 * xx + 2)
          v == plane[DestIndex(height, width, yy) + xx]
      IN  /\ v = Luminance(r, g, b)
          /\ v \in 0..255
          /\ v \in {ExactTrunc(r, g, b), ExactTrunc(r, g, b) - 1}
          /\ (r = 255 /\ g = 255 /\ b = 255) => v = 255
          /\ (r = 255 /\ g = 0 /\ b = 0) => v = 76
          /\ (r = 0 /\ g = 0 /\ b = 0) => v = 0

LuminanceFormulaWitness ==
  /\ Success /\ width = 2 /\ height = 1
  /\ bmp.offset = HEADER_BYTES
  /\ SrcByte(0, 0) = 255 /\ SrcByte(0, 1) = 255 /\ SrcByte(0, 2) = 255
  /\ SrcByte(0, 3) = 0 /\ SrcByte(0, 4) = 0 /\ SrcByte(0, 5) = 255
  /\ plane = (0 :> 255) @@ (1 :> 76)

\* C6: Plane size: after a successful load the number of bytes allocated
\* for the plane is the mathematical product of the returned width and the
\* returned height, for every stored width and height of the int32 range.
PlaneSizeIsProduct ==
  Success =>
    /\ ~MulOverflows(width, height)
    /\ planeSize = width * height

\* the positions in f.data of the padding bytes of the rows the loader reads
PadPositions(f, w, h, stride) ==
  {f.offset - HEADER_BYTES + yy * stride + k + 1 :
     yy \in 0..(h - 1), k \in (3 * w)..(stride - 1)} \cap (1..Len(f.data))

\* f with the padding bytes at the positions ps set to v
WithPadding(f, ps, v) ==
  [f EXCEPT !.data = [i \in 1..Len(f.data) |-> IF i \in ps THEN v ELSE f.data[i]]]

\* the files that differ from f in one padding byte, or in all of them
PaddingVariants(f, w, h, stride) ==
  LET ps == PadPositions(f, w, h, stride)
  IN  {WithPadding(f, {q}, v) : q \in ps, v \in {0, 85, 255}}
        \cup {WithPadding(f, ps, v) : v \in {0, 85, 255}}

\* C8: Padding ignorance: a file that differs from a successfully loaded one
\* only in the values of the padding bytes at the end of its pixel rows loads
\* to the same width, height and plane.
PaddingIgnored ==
  (Success /\ mpc = "in_load" /\ width > 0 /\ height > 0) =>
    /\ LoadRows(bmp, width, height, row_padded, bmp.offset, 0, EmptyPlane)
         = [ret |-> 0, plane |-> plane]
    /\ \A f \in PaddingVariants(bmp, width, height, row_padded) :
         /\ f.width = width /\ RowPadded(f.width) = row_padded
         /\ StoredHeight(f.height) = height
         /\ LoadRows(f, width, height, row_padded, f.offset, 0, EmptyPlane)
              = [ret |-> 0, plane |-> plane]

PaddingIgnoredWitness ==
  /\ Success /\ width = 2 /\ height = 2 /\ row_padded = 8
  /\ SrcByte(0, 6) = 170 /\ SrcByte(1, 7) = 170
  /\ Cardinality(PaddingVariants(bmp, width, height, row_padded)) > 8

\* C9: Invocation, as claimed: unless exactly one argument is given main
\* prints the usage line, exits with status 1 and never calls load_bmp.
UsageUnlessOneArgument ==
  argc # 2 =>
    /\ loadArg = 0 /\ pc = "idle"
    /\ mpc = "exited" => (usage /\ exitStatus = 1)

\* C9, as amended: without a path argument main prints the usage line, exits
\* with status 1 and never calls load_bmp; with one argument or more it
\* prints no usage line and calls load_bmp on argv[1], ignoring the rest.
UsageWithoutArgument ==
  /\ argc < 2 =>
       /\ loadArg = 0 /\ pc = "idle"
       /\ mpc = "exited" => (usage /\ exitStatus = 1)
  /\ argc >= 2 =>
       /\ ~usage
       /\ mpc # "start" => (loadArg = 1 /\ pc # "idle")

UsageWithoutArgumentWitness ==
  /\ argc = 3 /\ mpc = "exited" /\ exitStatus = 0
  /\ loadArg = 1 /\ Success /\ ~usage

\* the first check, in the order open, file header, magic, info header, bit
\* depth, compression, that the file does not pass
FirstHeaderError ==
  IF ~exists THEN "OpenFailure"
  ELSE IF FileSize(bmp) < FILE_HEADER_SIZE THEN "TruncatedHeader"
  ELSE IF bmp.type # BM_MAGIC THEN "BadMagic"
  ELSE IF FileSize(bmp) < HEADER_BYTES THEN "TruncatedHeader"
  ELSE IF bmp.bitDepth # BIT_DEPTH THEN "UnsupportedDepth"
  ELSE IF bmp.compression # 0 THEN "UnsupportedCompression"
  ELSE "none"

HeaderErrors ==
  {"OpenFailure", "TruncatedHeader", "BadMagic", "UnsupportedDepth",
   "UnsupportedCompression"}

\* C10: Validation order: load_bmp fails with the error of the first check
\* that does not pass, in the order open, 14-byte file header, magic, 40-byte
\* info header, bit depth, compression; and nothing is allocated, sought or
\* read from the pixel region unless every header check has passed.
ValidationOrder ==
  /\ Returned =>
       IF FirstHeaderError # "none"
         THEN ret = -1 /\ err = FirstHeaderError
         ELSE err \notin HeaderErrors
  /\ (FirstHeaderError # "none" \/ pc \in {"idle", "fopen", "read_file_header",
        "check_magic", "read_info_header", "check_depth", "check_compression"}) =>
       /\ planeState = "none" /\ rowState = "none" /\ image_data = "NULL"
       /\ seeks = 0 /\ rowReads = 0 /\ ~dimsSet

ValidationOrderWitness ==
  /\ Failure /\ err = "UnsupportedDepth"
  /\ bmp.bitDepth = 8 /\ bmp.compression # 0
  /\ fcloses = 1 /\ planeState = "none"

=============================================================================
